---- MODULE Spec2Model ----
(***************************************************************************)
(* The orca front end: the precedence-climbing parser (src/src/parser.rs)  *)
(* and the tree-walking evaluator (src/src/ast/evaluator.rs).              *)
(*                                                                         *)
(* The parser is a pure function of the token stream and is written as     *)
(* recursive operators, one per parsing method.  The evaluator is a        *)
(* recursive procedure over a mutable scope stack; it is written as a      *)
(* machine whose continuation stack (kont) holds the suspended Rust call   *)
(* frames, so that every intermediate state of the scope stack is a state  *)
(* of the model.                                                           *)
(***************************************************************************)
EXTENDS Integers, Sequences, FiniteSets, TLC

VARIABLES src, program, stage, ctrl, kont, scopes, result, err

vars == <<src, program, stage, ctrl, kont, scopes, result, err>>

(***************************************************************************)
(* Bounds of the model.                                                    *)
(***************************************************************************)
\* f64 values are modelled exactly while numerator and denominator stay
\* within NumCap (and the denominator is a power of two).
NumCap == 30000
\* The largest integer literal of the generated arithmetic sources.
MaxLit == 3
\* The largest number of parameters a generated function declares; a
\* generated call supplies up to one argument more.
MaxParams == 2

(***************************************************************************)
(* f64.  A value is [k, s, n, d]: k = "fin" is the dyadic rational         *)
(* s * n / d (d a power of two, zero keeps its sign), "inf" is s *         *)
(* infinity, "nan" is NaN.  "inexact" marks a result whose f64 rounding is *)
(* outside what the model represents exactly; the evaluator stops there    *)
(* (stage "inexact") instead of continuing with a made-up value.           *)
(***************************************************************************)
RECURSIVE Gcd(_, _)
Gcd(a, b) == IF b = 0 THEN a ELSE Gcd(b, a % b)

RECURSIVE IsPow2(_)
IsPow2(d) == IF d = 1 THEN TRUE ELSE IF d % 2 = 1 \/ d = 0 THEN FALSE ELSE IsPow2(d \div 2)

Abs(x) == IF x < 0 THEN -x ELSE x
Sgn(x) == IF x < 0 THEN -1 ELSE 1

NaN == [k |-> "nan", s |-> 1, n |-> 0, d |-> 0]
Inf(s) == [k |-> "inf", s |-> s, n |-> 1, d |-> 0]
Inexact == [k |-> "inexact", s |-> 1, n |-> 0, d |-> 0]
Zero(s) == [k |-> "fin", s |-> s, n |-> 0, d |-> 1]

\* The f64 nearest to s * n / d, when the model represents it exactly.
Fin(s, n, d) ==
    IF n = 0 THEN Zero(s)
    ELSE LET g == Gcd(n, d)
             nn == n \div g
             dd == d \div g
         IN IF nn > NumCap \/ dd > NumCap \/ ~IsPow2(dd) THEN Inexact
            ELSE [k |-> "fin", s |-> s, n |-> nn, d |-> dd]

\* `value as f64` of an integer token.
IntToF64(v) == Fin(Sgn(v), Abs(v), 1)

IsZero(a) == a.k = "fin" /\ a.n = 0

fneg(a) == IF a.k \in {"nan", "inexact"} THEN a ELSE [a EXCEPT !.s = -a.s]

fadd(a, b) ==
    IF a.k = "nan" \/ b.k = "nan" THEN NaN
    ELSE IF a.k = "inf" /\ b.k = "inf" THEN (IF a.s = b.s THEN a ELSE NaN)
    ELSE IF a.k = "inf" THEN a
    ELSE IF b.k = "inf" THEN b
    ELSE LET x == a.s * a.n * b.d + b.s * b.n * a.d
         IN IF x = 0
            THEN Zero(IF IsZero(a) /\ IsZero(b) /\ a.s = -1 /\ b.s = -1 THEN -1 ELSE 1)
            ELSE Fin(Sgn(x), Abs(x), a.d * b.d)

fsub(a, b) == fadd(a, fneg(b))

fmul(a, b) ==
    IF a.k = "nan" \/ b.k = "nan" THEN NaN
    ELSE IF (a.k = "inf" /\ IsZero(b)) \/ (b.k = "inf" /\ IsZero(a)) THEN NaN
    ELSE IF a.k = "inf" \/ b.k = "inf" THEN Inf(a.s * b.s)
    ELSE Fin(a.s * b.s, a.n * b.n, a.d * b.d)

fdiv(a, b) ==
    IF a.k = "nan" \/ b.k = "nan" THEN NaN
    ELSE IF a.k = "inf" /\ b.k = "inf" THEN NaN
    ELSE IF a.k = "inf" THEN Inf(a.s * b.s)
    ELSE IF b.k = "inf" THEN Zero(a.s * b.s)
    ELSE IF IsZero(b) THEN (IF IsZero(a) THEN NaN ELSE Inf(a.s * b.s))
    ELSE Fin(a.s * b.s, a.n * b.d, a.d * b.n)

\* acc * base^e for naturals, 0 once the product leaves NumCap.
RECURSIVE PowNat(_, _, _)
PowNat(acc, base, e) ==
    IF e = 0 \/ base = 1 THEN acc
    ELSE IF acc * base > NumCap THEN 0
    ELSE PowNat(acc * base, base, e - 1)

\* |a| compared with 1, for a finite or infinite a: -1, 0 or 1.
MagVsOne(a) == IF a.k = "inf" \/ a.n > a.d THEN 1 ELSE IF a.n = a.d THEN 0 ELSE -1

\* f64::powf.
fpow(a, b) ==
    IF b.k = "fin" /\ b.n = 0 THEN Fin(1, 1, 1)
    ELSE IF a.k = "fin" /\ a.s = 1 /\ a.n = 1 /\ a.d = 1 THEN Fin(1, 1, 1)
    ELSE IF a.k = "nan" \/ b.k = "nan" THEN NaN
    ELSE IF b.k = "inf"
         THEN IF MagVsOne(a) = 0 THEN Fin(1, 1, 1)
              ELSE IF (MagVsOne(a) = 1) = (b.s = 1) THEN Inf(1) ELSE Zero(1)
    ELSE IF b.d # 1
         THEN \* a finite exponent that is not an integer
              IF IsZero(a) \/ a.k = "inf"
              THEN (IF (b.s = 1) = IsZero(a) THEN Zero(1) ELSE Inf(1))
              ELSE IF a.s = -1 THEN NaN ELSE Inexact
    ELSE LET odd == b.n % 2 = 1
             sg  == IF a.s = -1 /\ odd THEN -1 ELSE 1
         IN IF IsZero(a) \/ a.k = "inf"
            THEN (IF (b.s = 1) = IsZero(a) THEN Zero(sg) ELSE Inf(sg))
            ELSE LET pn == PowNat(1, a.n, b.n)
                     pd == PowNat(1, a.d, b.n)
                 IN IF pn = 0 \/ pd = 0 THEN Inexact
                    ELSE IF b.s = 1 THEN Fin(sg, pn, pd) ELSE Fin(sg, pd, pn)

\* f64 comparisons (NaN compares false with everything, -0.0 == 0.0).
feq(a, b) ==
    /\ a.k # "nan" /\ b.k # "nan"
    /\ \/ IsZero(a) /\ IsZero(b)
       \/ a = b

flt(a, b) ==
    /\ a.k # "nan" /\ b.k # "nan"
    /\ ~feq(a, b)
    /\ IF a.k = "inf" THEN a.s = -1
       ELSE IF b.k = "inf" THEN b.s = 1
       ELSE a.s * a.n * b.d < b.s * b.n * a.d

(***************************************************************************)
(* Tokens (the lexer's TokenType).  Every token is [t, v, s]: t the        *)
(* variant, v the value of an Integer, s the text of an Identifier.        *)
(***************************************************************************)
Tok(t) == [t |-> t, v |-> 0, s |-> ""]
TInt(v) == [t |-> "Integer", v |-> v, s |-> ""]
TId(s) == [t |-> "Identifier", v |-> 0, s |-> s]
EOF == Tok("EOF")
Newline == Tok("Newline")
Plus == Tok("Plus")
Minus == Tok("Minus")
Asterisk == Tok("Asterisk")
ForwardSlash == Tok("ForwardSlash")
Carat == Tok("Carat")
Equals == Tok("Equals")
OpenParenthesis == Tok("OpenParenthesis")
CloseParenthesis == Tok("CloseParenthesis")
OpenBraces == Tok("OpenBraces")
CloseBraces == Tok("CloseBraces")
Comma == Tok("Comma")

\* The parser's curr_token when `pos - 1` tokens have been consumed.
CurrToken(toks, pos) == IF pos <= Len(toks) THEN toks[pos] ELSE EOF
\* Lexer::lookahead(0): the token after curr_token, not consumed.
lookahead0(toks, pos) == CurrToken(toks, pos + 1)

(***************************************************************************)
(* AST nodes (ast.rs) and runtime values (Symbol).                         *)
(***************************************************************************)
NumberNode(f) == [type |-> "Number", value |-> f]
VariableNode(name) == [type |-> "Variable", name |-> name]
BinaryExpression(left, operator, right) ==
    [type |-> "BinaryExpression", left |-> left, operator |-> operator, right |-> right]
UnaryExpression(operand) == [type |-> "UnaryExpression", operand |-> operand]
VariableExpression(name, value) == [type |-> "VariableExpression", name |-> name, value |-> value]
FunctionExpression(name, args, body) ==
    [type |-> "FunctionExpression", name |-> name, args |-> args, body |-> body]
FunctionCall(name, args) == [type |-> "FunctionCall", name |-> name, args |-> args]
ReturnExpression(expr) == [type |-> "ReturnExpression", expr |-> expr]
IfStatement(condition, consequence) ==
    [type |-> "IfStatement", condition |-> condition, consequence |-> consequence]
Program(body) == [type |-> "Program", body |-> body]
NoNode == [type |-> "none"]

SymNumber(f) == [kind |-> "Number", num |-> f]
SymBoolean(b) == [kind |-> "Boolean", b |-> b]
SymFunction(fe) == [kind |-> "Function", fe |-> fe]
SymVariable(name) == [kind |-> "Variable", name |-> name]
\* Option<Symbol>::None; Some(sym) is sym itself.
None == [kind |-> "None"]

(***************************************************************************)
(* The parser.  Each method takes the token stream and the position of     *)
(* curr_token and yields [ok, node, pos]: ok = FALSE is a panic (the       *)
(* parse stops there), pos the position of curr_token afterwards.          *)
(***************************************************************************)
POk(node, pos) == [ok |-> TRUE, node |-> node, pos |-> pos]
PPanic(pos) == [ok |-> FALSE, node |-> NoNode, pos |-> pos]

\* `r` did not panic: go on with `k` of its result; a panic is passed on.
Then(r, k(_)) == IF r.ok THEN k(r) ELSE r

eat(toks, pos, expected_token) ==
    IF CurrToken(toks, pos) = EOF THEN PPanic(pos)
    ELSE IF expected_token # CurrToken(toks, pos) THEN PPanic(pos)
    ELSE POk(CurrToken(toks, pos), pos + 1)

eat_number(toks, pos) ==
    IF CurrToken(toks, pos).t \in {"Decimal", "Integer"}
    THEN eat(toks, pos, CurrToken(toks, pos))
    ELSE PPanic(pos)

eat_operator(toks, pos) ==
    IF CurrToken(toks, pos).t \in {"Plus", "Minus", "Asterisk", "ForwardSlash", "Carat"}
    THEN eat(toks, pos, CurrToken(toks, pos))
    ELSE PPanic(pos)

eat_identifier(toks, pos) ==
    IF CurrToken(toks, pos).t = "Identifier"
    THEN Then(eat(toks, pos, CurrToken(toks, pos)), LAMBDA e : POk(e.node.s, e.pos))
    ELSE PPanic(pos)

get_precedence(operator) ==
    CASE operator.t = "Carat" -> 5
      [] operator.t = "Asterisk" -> 3
      [] operator.t = "ForwardSlash" -> 3
      [] operator.t = "Plus" -> 2
      [] operator.t = "Minus" -> 2
      [] OTHER -> 0

\* The precedence floor infix hands to the right operand's expression.
infix_floor_right_assoc_all(operator) == get_precedence(operator) - 1

infix_floor_left_assoc_all(operator) == get_precedence(operator)

infix_floor(operator) ==
    IF operator = Carat THEN get_precedence(operator) - 1 ELSE get_precedence(operator)

\* The precedence floor unary_expression hands to its operand's expression.
unary_floor_above_carat == get_precedence(Carat)

unary_floor == 4

RECURSIVE statement_list_loop(_, _, _)
RECURSIVE expression(_, _, _)
RECURSIVE expression_loop(_, _, _, _)

variable_statement(toks, pos) ==
    Then(eat_identifier(toks, pos), LAMBDA n : POk(VariableNode(n.node), n.pos))

parenthesized_expression(toks, pos) ==
    Then(eat(toks, pos, OpenParenthesis), LAMBDA o :
    Then(expression(toks, o.pos, 0), LAMBDA e :
    Then(eat(toks, e.pos, CloseParenthesis), LAMBDA c :
    POk(e.node, c.pos))))

return_expression(toks, pos) ==
    Then(eat(toks, pos, TId("return")), LAMBDA r :
    Then(expression(toks, r.pos, 0), LAMBDA e :
    POk(ReturnExpression(e.node), e.pos)))

unary_expression(toks, pos) ==
    Then(eat(toks, pos, Minus), LAMBDA m :
    Then(expression(toks, m.pos, unary_floor), LAMBDA e :
    POk(UnaryExpression(e.node), e.pos)))

\* One argument of function_call_args.
function_call_arg(toks, pos) ==
    IF CurrToken(toks, pos).t = "Identifier"
    THEN Then(eat_identifier(toks, pos), LAMBDA i : POk(SymVariable(i.node), i.pos))
    ELSE Then(eat_number(toks, pos), LAMBDA n : POk(SymNumber(IntToF64(n.node.v)), n.pos))

\* The loop of function_call_args, args being the arguments pushed so far.
RECURSIVE function_call_args_loop(_, _, _)
function_call_args_loop(toks, pos, args) ==
    Then(function_call_arg(toks, pos), LAMBDA a :
    IF CurrToken(toks, a.pos) = CloseParenthesis THEN POk(Append(args, a.node), a.pos)
    ELSE Then(eat(toks, a.pos, Comma), LAMBDA c :
         function_call_args_loop(toks, c.pos, Append(args, a.node))))

function_call_args(toks, pos) ==
    IF CurrToken(toks, pos) = CloseParenthesis THEN POk(<<>>, pos)
    ELSE function_call_args_loop(toks, pos, <<>>)

function_call(toks, pos) ==
    Then(eat_identifier(toks, pos), LAMBDA f :
    Then(eat(toks, f.pos, OpenParenthesis), LAMBDA o :
    Then(function_call_args(toks, o.pos), LAMBDA a :
    Then(eat(toks, a.pos, CloseParenthesis), LAMBDA c :
    POk(FunctionCall(f.node, a.node), c.pos)))))

prefix(toks, pos) ==
    IF CurrToken(toks, pos) = OpenParenthesis THEN parenthesized_expression(toks, pos)
    ELSE IF CurrToken(toks, pos) = Minus THEN unary_expression(toks, pos)
    ELSE IF CurrToken(toks, pos).t = "Identifier"
         THEN IF CurrToken(toks, pos).s = "return" THEN return_expression(toks, pos)
              ELSE IF lookahead0(toks, pos) = OpenParenthesis THEN function_call(toks, pos)
              ELSE variable_statement(toks, pos)
    ELSE Then(eat_number(toks, pos), LAMBDA n : POk(NumberNode(IntToF64(n.node.v)), n.pos))

infix(toks, pos, left, operator) ==
    Then(eat_operator(toks, pos), LAMBDA o :
    Then(expression(toks, o.pos, infix_floor(operator)), LAMBDA r :
    POk(BinaryExpression(left, operator.t, r.node), r.pos)))

\* The while loop of expression, left being the expression parsed so far.
expression_loop(toks, pos, left, precedence) ==
    IF /\ CurrToken(toks, pos) # EOF
       /\ CurrToken(toks, pos) # Newline
       /\ precedence < get_precedence(CurrToken(toks, pos))
    THEN Then(infix(toks, pos, left, CurrToken(toks, pos)), LAMBDA i :
         expression_loop(toks, i.pos, i.node, precedence))
    ELSE POk(left, pos)

expression(toks, pos, precedence) ==
    Then(prefix(toks, pos), LAMBDA l : expression_loop(toks, l.pos, l.node, precedence))

variable_expression(toks, pos) ==
    Then(eat_identifier(toks, pos), LAMBDA n :
    Then(eat(toks, n.pos, Equals), LAMBDA q :
    Then(expression(toks, q.pos, 0), LAMBDA e :
    POk(VariableExpression(n.node, e.node), e.pos))))

\* The loop of function_expression_args, args being the names pushed so far.
RECURSIVE function_expression_args_loop(_, _, _)
function_expression_args_loop(toks, pos, args) ==
    Then(eat_identifier(toks, pos), LAMBDA a :
    IF CurrToken(toks, a.pos) = CloseParenthesis THEN POk(Append(args, a.node), a.pos)
    ELSE Then(eat(toks, a.pos, Comma), LAMBDA c :
         function_expression_args_loop(toks, c.pos, Append(args, a.node))))

function_expression_args(toks, pos) ==
    IF CurrToken(toks, pos) = CloseParenthesis THEN POk(<<>>, pos)
    ELSE function_expression_args_loop(toks, pos, <<>>)

function_expression(toks, pos) ==
    Then(eat(toks, pos, TId("func")), LAMBDA f :
    Then(eat_identifier(toks, f.pos), LAMBDA n :
    Then(eat(toks, n.pos, OpenParenthesis), LAMBDA o :
    Then(function_expression_args(toks, o.pos), LAMBDA a :
    Then(eat(toks, a.pos, CloseParenthesis), LAMBDA c :
    Then(eat(toks, c.pos, OpenBraces), LAMBDA ob :
    Then(eat(toks, ob.pos, Newline), LAMBDA nl :
    Then(statement_list_loop(toks, nl.pos, <<>>), LAMBDA b :
    Then(eat(toks, b.pos, CloseBraces), LAMBDA cb :
    POk(FunctionExpression(n.node, a.node, b.node), cb.pos))))))))))

statement(toks, pos) ==
    IF lookahead0(toks, pos) = Equals THEN variable_expression(toks, pos)
    ELSE IF CurrToken(toks, pos) = TId("func") THEN function_expression(toks, pos)
    ELSE expression(toks, pos, 0)

\* The while loop of statement_list, statements being those pushed so far.
statement_list_loop(toks, pos, statements) ==
    IF CurrToken(toks, pos) # EOF /\ CurrToken(toks, pos) # CloseBraces
    THEN Then(statement(toks, pos), LAMBDA s :
         IF CurrToken(toks, s.pos) # EOF
         THEN Then(eat(toks, s.pos, Newline), LAMBDA n :
              statement_list_loop(toks, n.pos, Append(statements, s.node)))
         ELSE statement_list_loop(toks, s.pos, Append(statements, s.node)))
    ELSE POk(statements, pos)

statement_list(toks, pos) == statement_list_loop(toks, pos, <<>>)

parser_program(toks) ==
    Then(statement_list(toks, 1), LAMBDA l : POk(Program(l.node), l.pos))

\* Parser::new(src).parse()
parse(toks) == parser_program(toks)

(***************************************************************************)
(* The environment (SymbolTable): a stack of scopes, the global scope      *)
(* first.  A scope is [label, vars], vars mapping every name to its value  *)
(* or to Unbound.                                                          *)
(***************************************************************************)
Names == {"x", "y", "z", "a", "b", "c", "d", "f", "g", "u"}
Unbound == [kind |-> "Unbound"]

NewScope(label) == [label |-> label, vars |-> [n \in Names |-> Unbound]]

\* SymbolTable::new()
new_symbol_table == <<NewScope("global")>>

push_scope(sc, label) == Append(sc, NewScope(label))

\* pop_scope is fatal when it would remove the global scope.
can_pop_scope(sc) == Len(sc) > 1

pop_scope(sc) == SubSeq(sc, 1, Len(sc) - 1)

insert(sc, name, value) == [sc EXCEPT ![Len(sc)].vars[name] = value]

\* get: the innermost binding of name, Unbound when no scope has one
\* (the lookup then fails).
RECURSIVE lookup(_, _, _)
lookup(sc, i, name) ==
    IF i = 0 THEN Unbound
    ELSE IF sc[i].vars[name] # Unbound THEN sc[i].vars[name]
    ELSE lookup(sc, i - 1, name)

get(sc, name) == lookup(sc, Len(sc), name)

(***************************************************************************)
(* The evaluator's pure helpers.                                           *)
(***************************************************************************)
Panic == [kind |-> "Panic"]

ComparisonOperators ==
    {"DoubleEquals", "GreaterThan", "LessThan", "GreaterThanOrEqualTo", "LessThanOrEqualTo"}

eval_math_expression(left, operator, right) ==
    IF left.kind = "Number" /\ right.kind = "Number"
    THEN CASE operator = "Plus" -> SymNumber(fadd(left.num, right.num))
           [] operator = "Minus" -> SymNumber(fsub(left.num, right.num))
           [] operator = "Asterisk" -> SymNumber(fmul(left.num, right.num))
           [] operator = "ForwardSlash" -> SymNumber(fdiv(left.num, right.num))
           [] operator = "Carat" -> SymNumber(fpow(left.num, right.num))
           [] OTHER -> Panic
    ELSE Panic

compare_number(left, operator, right) ==
    CASE operator = "DoubleEquals" -> SymBoolean(feq(left, right))
      [] operator = "GreaterThan" -> SymBoolean(flt(right, left))
      [] operator = "LessThan" -> SymBoolean(flt(left, right))
      [] operator = "GreaterThanOrEqualTo" -> SymBoolean(flt(right, left) \/ feq(left, right))
      [] operator = "LessThanOrEqualTo" -> SymBoolean(flt(left, right) \/ feq(left, right))
      [] OTHER -> Panic

compare(left, operator, right) ==
    IF left.kind = "Number" /\ right.kind = "Number"
    THEN compare_number(left.num, operator, right.num)
    ELSE IF left.kind = "Boolean" /\ right.kind = "Boolean"
    THEN (IF operator = "DoubleEquals" THEN SymBoolean(left.b = right.b) ELSE Panic)
    ELSE Panic

\* The result_symbol of eval_binary_expression, both operands being values.
binary_result(left, operator, right) ==
    IF operator \in ComparisonOperators
    THEN compare(left, operator, right)
    ELSE eval_math_expression(left, operator, right)

\* `passed` of eval_if_statement.
passed(val) ==
    CASE val.kind = "Number" -> ~feq(val.num, Zero(1))
      [] val.kind = "Boolean" -> val.b
      [] OTHER -> FALSE

\* The result of eval_unary_expression for an operand that produced symbol.
unary_result(symbol) ==
    IF symbol.kind = "Number" THEN SymNumber(fneg(symbol.num)) ELSE None

\* validate_function_call does not panic.
validate_function_call_exact(func_call, func_expr) ==
    Len(func_call.args) = Len(func_expr.args)

validate_function_call(func_call, func_expr) ==
    ~(Len(func_call.args) < Len(func_expr.args))

Min(m, n) == IF m < n THEN m ELSE n

\* The (arg_name, value) pairs push_function collects before it pushes the
\* scope: zip stops at the shorter list; a Variable argument is looked up in
\* sc, the table as the caller left it.
function_args(sc, func_call, func_expr) ==
    [i \in 1..Min(Len(func_expr.args), Len(func_call.args)) |->
        [name |-> func_expr.args[i],
         value |-> IF func_call.args[i].kind = "Variable"
                   THEN get(sc, func_call.args[i].name)
                   ELSE func_call.args[i]]]

RECURSIVE insert_all(_, _, _)
insert_all(sc, args, i) ==
    IF i > Len(args) THEN sc
    ELSE insert_all(insert(sc, args[i].name, args[i].value), args, i + 1)

\* Some looked-up argument has no binding (get fails).
push_function_fails(sc, func_call, func_expr) ==
    \E i \in DOMAIN function_args(sc, func_call, func_expr) :
        function_args(sc, func_call, func_expr)[i].value = Unbound

\* push_function with each argument looked up as its parameter is bound,
\* after the scope is pushed.
RECURSIVE insert_resolving_in_callee(_, _, _, _)
insert_resolving_in_callee(sc, func_call, func_expr, i) ==
    IF i > Min(Len(func_expr.args), Len(func_call.args)) THEN sc
    ELSE insert_resolving_in_callee(
             insert(sc, func_expr.args[i],
                    IF func_call.args[i].kind = "Variable"
                    THEN get(sc, func_call.args[i].name)
                    ELSE func_call.args[i]),
             func_call, func_expr, i + 1)

push_function_resolve_in_callee(sc, func_call, func_expr) ==
    insert_resolving_in_callee(push_scope(sc, func_expr.name), func_call, func_expr, 1)

push_function(sc, func_call, func_expr) ==
    insert_all(push_scope(sc, func_expr.name), function_args(sc, func_call, func_expr), 1)

\* The arm of eval_function_call's loop a body line takes.
is_return_line_never(line) == FALSE

is_return_line(line) == line.type = "ReturnExpression"

\* The scope stack when eval_function_call leaves through a return line.
function_return_scopes_no_pop(sc) == sc

function_return_scopes(sc) == pop_scope(sc)

\* The scope stack when eval_function_call leaves at the end of the body.
function_end_scopes(sc) == pop_scope(sc)

\* The scope stack in which eval_if_statement runs a consequence.
if_enter_scopes_no_push(sc) == sc

if_enter_scopes(sc) == push_scope(sc, "if")

\* The scope stack after eval_if_statement has run a consequence.
if_exit_scopes(sc) == pop_scope(sc)

(***************************************************************************)
(* The evaluator as a machine.  ctrl is what runs next: [m |-> "eval"] a   *)
(* call eval_node(node); [m |-> "ret"] the return of a call with val;      *)
(* [m |-> "next"] the head of a loop just entered.  kont holds the         *)
(* suspended callers, innermost last.                                      *)
(***************************************************************************)
CEval(node) == [m |-> "eval", node |-> node, val |-> None]
CRet(val) == [m |-> "ret", node |-> NoNode, val |-> val]
CNext == [m |-> "next", node |-> NoNode, val |-> None]
CIdle == [m |-> "idle", node |-> NoNode, val |-> None]

Top == kont[Len(kont)]
Below == SubSeq(kont, 1, Len(kont) - 1)

Running == stage = "eval"
Evaluating(type) == Running /\ ctrl.m = "eval" /\ ctrl.node.type = type
Returning(k) == Running /\ ctrl.m = "ret" /\ Len(kont) > 0 /\ Top.k = k
Looping(k) == Running /\ ctrl.m \in {"ret", "next"} /\ Len(kont) > 0 /\ Top.k = k

\* A panic: evaluation stops where it is.
PanicWith(e) ==
    /\ stage' = "panic"
    /\ err' = e
    /\ UNCHANGED <<src, program, ctrl, kont, scopes, result>>

\* Return val to the caller on top of k.
ReturnTo(val, k) ==
    /\ ctrl' = CRet(val)
    /\ kont' = k

\* result.push(self.eval_node(line)) of eval.
result_push_values_only(res, val) == IF val = None THEN res ELSE Append(res, val)

result_push(res, val) == Append(res, val)

(***************************************************************************)
(* Parser::new(src).parse(): the driver hands the tokens to the parser.    *)
(***************************************************************************)
Parse ==
    /\ stage = "parse"
    /\ \E parsed \in {parse(src)} :
          IF parsed.ok
          THEN /\ program' = parsed.node
               /\ stage' = "ready"
               /\ err' = err
          ELSE /\ program' = program
               /\ stage' = "panic"
               /\ err' = "syntax"
    /\ UNCHANGED <<src, ctrl, kont, scopes, result>>

(***************************************************************************)
(* ASTEvaluator::eval                                                      *)
(***************************************************************************)
\* eval is entered: result = vec![], then the loop over the program's lines.
Eval ==
    /\ stage = "ready"
    /\ result' = <<>>
    /\ IF program.type = "Program"
       THEN /\ stage' = "eval"
            /\ kont' = <<[k |-> "program", body |-> program.body, i |-> 0]>>
            /\ ctrl' = CNext
       ELSE /\ stage' = "done"
            /\ kont' = <<>>
            /\ ctrl' = CIdle
    /\ UNCHANGED <<src, program, scopes, err>>

\* One turn of eval's loop: push the value of the line that returned, then
\* evaluate the next line, or return result.
EvalLoop ==
    /\ Looping("program")
    /\ result' = IF ctrl.m = "ret" THEN result_push(result, ctrl.val) ELSE result
    /\ IF Top.i + 1 > Len(Top.body)
       THEN /\ stage' = "done"
            /\ kont' = <<>>
            /\ ctrl' = CIdle
       ELSE /\ stage' = stage
            /\ kont' = Append(Below, [Top EXCEPT !.i = Top.i + 1])
            /\ ctrl' = CEval(Top.body[Top.i + 1])
    /\ UNCHANGED <<src, program, scopes, err>>

(***************************************************************************)
(* eval_node, one action per arm.                                          *)
(***************************************************************************)
EvalNumber ==
    /\ Evaluating("Number")
    /\ ReturnTo(SymNumber(ctrl.node.value), kont)
    /\ UNCHANGED <<src, program, stage, scopes, result, err>>

EvalVariable ==
    /\ Evaluating("Variable")
    /\ IF get(scopes, ctrl.node.name) = Unbound
       THEN PanicWith("unbound")
       ELSE /\ ReturnTo(get(scopes, ctrl.node.name), kont)
            /\ UNCHANGED <<src, program, stage, scopes, result, err>>

EvalFunctionExpression ==
    /\ Evaluating("FunctionExpression")
    /\ scopes' = insert(scopes, ctrl.node.name, SymFunction(ctrl.node))
    /\ ReturnTo(None, kont)
    /\ UNCHANGED <<src, program, stage, result, err>>

\* The `_ => None` arm: ReturnExpression, Program and the unused variants.
EvalOther ==
    /\ Running /\ ctrl.m = "eval"
    /\ ctrl.node.type \notin {"Number", "BinaryExpression", "UnaryExpression",
                              "VariableExpression", "Variable", "FunctionExpression",
                              "FunctionCall", "IfStatement"}
    /\ ReturnTo(None, kont)
    /\ UNCHANGED <<src, program, stage, scopes, result, err>>

(***************************************************************************)
(* eval_variable_statement                                                 *)
(***************************************************************************)
EvalVariableExpression ==
    /\ Evaluating("VariableExpression")
    /\ kont' = Append(kont, [k |-> "assign", name |-> ctrl.node.name])
    /\ ctrl' = CEval(ctrl.node.value)
    /\ UNCHANGED <<src, program, stage, scopes, result, err>>

VariableExpressionDone ==
    /\ Returning("assign")
    /\ scopes' = IF ctrl.val # None THEN insert(scopes, Top.name, ctrl.val) ELSE scopes
    /\ ReturnTo(None, Below)
    /\ UNCHANGED <<src, program, stage, result, err>>

(***************************************************************************)
(* eval_unary_expression                                                   *)
(***************************************************************************)
EvalUnaryExpression ==
    /\ Evaluating("UnaryExpression")
    /\ kont' = Append(kont, [k |-> "unary"])
    /\ ctrl' = CEval(ctrl.node.operand)
    /\ UNCHANGED <<src, program, stage, scopes, result, err>>

UnaryExpressionDone ==
    /\ Returning("unary")
    /\ ReturnTo(IF ctrl.val = None THEN None ELSE unary_result(ctrl.val), Below)
    /\ UNCHANGED <<src, program, stage, scopes, result, err>>

(***************************************************************************)
(* eval_binary_expression                                                  *)
(***************************************************************************)
EvalBinaryExpression ==
    /\ Evaluating("BinaryExpression")
    /\ kont' = Append(kont, [k |-> "binleft", be |-> ctrl.node])
    /\ ctrl' = CEval(ctrl.node.left)
    /\ UNCHANGED <<src, program, stage, scopes, result, err>>

BinaryLeftDone ==
    /\ Returning("binleft")
    /\ IF ctrl.val = None
       THEN ReturnTo(None, Below)
       ELSE /\ kont' = Append(Below, [k |-> "binright", be |-> Top.be, left |-> ctrl.val])
            /\ ctrl' = CEval(Top.be.right)
    /\ UNCHANGED <<src, program, stage, scopes, result, err>>

BinaryRightDone ==
    /\ Returning("binright")
    /\ IF ctrl.val = None
       THEN /\ ReturnTo(None, Below)
            /\ UNCHANGED <<src, program, stage, scopes, result, err>>
       ELSE LET res == binary_result(Top.left, Top.be.operator, ctrl.val)
            IN IF res = Panic THEN PanicWith("type")
               ELSE IF res.kind = "Number" /\ res.num = Inexact
               THEN /\ stage' = "inexact"
                    /\ UNCHANGED <<src, program, ctrl, kont, scopes, result, err>>
               ELSE /\ ReturnTo(res, Below)
                    /\ UNCHANGED <<src, program, stage, scopes, result, err>>

(***************************************************************************)
(* eval_if_statement (and eval_statement_list, its only callee loop)       *)
(***************************************************************************)
EvalIfStatement ==
    /\ Evaluating("IfStatement")
    /\ kont' = Append(kont, [k |-> "ifcond", is |-> ctrl.node])
    /\ ctrl' = CEval(ctrl.node.condition)
    /\ UNCHANGED <<src, program, stage, scopes, result, err>>

\* The condition is evaluated.  The frame of a consequence keeps, in
\* `before`, the scope stack the if statement found (a history value the
\* program does not hold).
IfConditionDone ==
    /\ Returning("ifcond")
    /\ IF passed(ctrl.val)
       THEN /\ scopes' = if_enter_scopes(scopes)
            /\ kont' = Append(Below, [k |-> "ifbody", list |-> Top.is.consequence,
                                      i |-> 0, before |-> scopes])
            /\ ctrl' = CNext
       ELSE /\ scopes' = scopes
            /\ ReturnTo(None, Below)
    /\ UNCHANGED <<src, program, stage, result, err>>

\* One turn of eval_statement_list's loop; at its end the if's scope is
\* popped and eval_node yields None.
StatementListLoop ==
    /\ Looping("ifbody")
    /\ IF Top.i + 1 > Len(Top.list)
       THEN IF can_pop_scope(scopes)
            THEN /\ scopes' = if_exit_scopes(scopes)
                 /\ ReturnTo(None, Below)
                 /\ UNCHANGED <<src, program, stage, result, err>>
            ELSE PanicWith("pop_global")
       ELSE /\ kont' = Append(Below, [Top EXCEPT !.i = Top.i + 1])
            /\ ctrl' = CEval(Top.list[Top.i + 1])
            /\ UNCHANGED <<src, program, stage, scopes, result, err>>

(***************************************************************************)
(* eval_function_call                                                      *)
(***************************************************************************)
\* Up to the head of the loop over the body: the lookup of the name,
\* validate_function_call and push_function.
EvalFunctionCall ==
    /\ Evaluating("FunctionCall")
    /\ LET func_call == ctrl.node
           found == get(scopes, func_call.name)
       IN IF found = Unbound THEN PanicWith("unbound")
          ELSE IF found.kind # "Function"
          THEN /\ ReturnTo(None, kont)
               /\ UNCHANGED <<src, program, stage, scopes, result, err>>
          ELSE IF ~validate_function_call(func_call, found.fe) THEN PanicWith("arity")
          ELSE IF push_function_fails(scopes, func_call, found.fe) THEN PanicWith("unbound")
          ELSE /\ scopes' = push_function(scopes, func_call, found.fe)
               /\ kont' = Append(kont, [k |-> "funcbody", body |-> found.fe.body, i |-> 0])
               /\ ctrl' = CNext
               /\ UNCHANGED <<src, program, stage, result, err>>

\* One turn of the loop over the body: a return line has its expression
\* evaluated, any other line is evaluated and its value dropped; after the
\* last line the scope is popped and the call yields None.
FunctionBodyLoop ==
    /\ Looping("funcbody")
    /\ IF Top.i + 1 > Len(Top.body)
       THEN IF can_pop_scope(scopes)
            THEN /\ scopes' = function_end_scopes(scopes)
                 /\ ReturnTo(None, Below)
                 /\ UNCHANGED <<src, program, stage, result, err>>
            ELSE PanicWith("pop_global")
       ELSE LET line == Top.body[Top.i + 1]
            IN /\ IF is_return_line(line)
                  THEN /\ kont' = Append(Below, [Top EXCEPT !.k = "funcret", !.i = Top.i + 1])
                       /\ ctrl' = CEval(line.expr)
                  ELSE /\ kont' = Append(Below, [Top EXCEPT !.i = Top.i + 1])
                       /\ ctrl' = CEval(line)
               /\ UNCHANGED <<src, program, stage, scopes, result, err>>

\* The expression of a return line is evaluated: pop the scope, return res.
FunctionReturn ==
    /\ Returning("funcret")
    /\ IF can_pop_scope(scopes)
       THEN /\ scopes' = function_return_scopes(scopes)
            /\ ReturnTo(ctrl.val, Below)
            /\ UNCHANGED <<src, program, stage, result, err>>
       ELSE PanicWith("pop_global")

(***************************************************************************)
(* Inputs.  A run starts either from a token stream handed to the parser   *)
(* or from an AST handed to eval directly (the parser builds no            *)
(* IfStatement and no comparison, eval accepts both).                      *)
(***************************************************************************)
SeqsUpTo(S, n) == UNION {[1..k -> S] : k \in 0..n}

RECURSIVE CommaSeparated(_)
CommaSeparated(toks) ==
    IF Len(toks) <= 1 THEN toks
    ELSE <<Head(toks), Comma>> \o CommaSeparated(Tail(toks))

\* Each statement followed by a Newline.
RECURSIVE Lines(_)
Lines(stmts) == IF stmts = <<>> THEN <<>> ELSE Head(stmts) \o <<Newline>> \o Lines(Tail(stmts))

Operands == {TInt(n) : n \in 0..MaxLit} \cup {TInt(12), TId("u")}
BinaryOperators == {Plus, Minus, Asterisk, ForwardSlash, Carat}

\* a op1 b op2 c
ChainSources ==
    {<<a, op1, b, op2, c>> : a \in Operands, b \in Operands, c \in Operands,
                             op1 \in BinaryOperators, op2 \in BinaryOperators}

\* -x op y   and   (-x) ^ y
UnarySources ==
    {<<Minus, x, op, y>> : x \in Operands, y \in Operands, op \in BinaryOperators}
    \cup {<<OpenParenthesis, Minus, x, CloseParenthesis, Carat, y>> :
              x \in Operands, y \in Operands}

\* x = a op1 b NEWLINE x op2 c
AssignSources ==
    {<<TId("x"), Equals, TInt(a), op1, TInt(b), Newline, TId("x"), op2, TInt(c)>> :
        a \in 1..MaxLit, b \in 1..MaxLit, c \in 1..MaxLit,
        op1 \in {Plus, Asterisk}, op2 \in {Plus, Minus}}

\* The bodies of the generated function f, as lists of statements.
FunctionBodies ==
    { <<>>,
      << <<TId("y"), Equals, TInt(1)>> >>,
      << <<TId("return"), TInt(7)>>, <<TId("u")>> >>,
      << <<TId("y"), Equals, TId("a")>>, <<TId("return"), TId("y"), Plus, TInt(1)>>,
         <<TId("return"), TInt(9)>> >> }

CallArguments == {TInt(1), TId("a"), TId("b"), TId("u")}

\* a = 5 NEWLINE b = 6 NEWLINE func f(params) { body } NEWLINE f(args)
FunctionSource(params, body, args) ==
    <<TId("a"), Equals, TInt(5), Newline, TId("b"), Equals, TInt(6), Newline>>
    \o <<TId("func"), TId("f"), OpenParenthesis>> \o CommaSeparated(params)
    \o <<CloseParenthesis, OpenBraces, Newline>> \o Lines(body) \o <<CloseBraces, Newline>>
    \o <<TId("f"), OpenParenthesis>> \o CommaSeparated(args) \o <<CloseParenthesis>>

\* The parameter lists generated: the first k of these names.
ParameterNames == <<TId("a"), TId("b"), TId("c"), TId("d")>>

FunctionSources ==
    {FunctionSource(SubSeq(ParameterNames, 1, k), body, args) :
        k \in 0..Min(MaxParams, Len(ParameterNames)),
        body \in FunctionBodies,
        args \in SeqsUpTo(CallArguments, MaxParams + 1)}

\* Streams the parser rejects.
BadSources ==
    { <<TInt(2), Plus>>, <<CloseParenthesis>>, <<TInt(1), TInt(2)>>,
      <<TId("func"), TId("f"), OpenParenthesis, CloseParenthesis, OpenBraces, Newline,
        TId("y"), Equals, TInt(1), CloseBraces>> }

\* Streams the parser accepts that fit no family above.
OtherSources == { <<TId("return"), TInt(5)>>, <<TInt(12), ForwardSlash, TInt(2), ForwardSlash, TInt(3)>> }

\* a = 5; b = 6; func g(a, b) { return a - b }; func f(a, b) { return g(x, y) };
\* f(1, 2): the call of g is made from f's scope, where a and b shadow the
\* globals.
NestedCallArguments == {TInt(3), TId("a"), TId("b")}

NestedCallSource(x, y) ==
    <<TId("a"), Equals, TInt(5), Newline, TId("b"), Equals, TInt(6), Newline>>
    \o <<TId("func"), TId("g"), OpenParenthesis, TId("a"), Comma, TId("b"), CloseParenthesis,
         OpenBraces, Newline, TId("return"), TId("a"), Minus, TId("b"), Newline,
         CloseBraces, Newline>>
    \o <<TId("func"), TId("f"), OpenParenthesis, TId("a"), Comma, TId("b"), CloseParenthesis,
         OpenBraces, Newline, TId("return"), TId("g"), OpenParenthesis, x, Comma, y,
         CloseParenthesis, Newline, CloseBraces, Newline>>
    \o <<TId("f"), OpenParenthesis, TInt(1), Comma, TInt(2), CloseParenthesis>>

NestedCallSources ==
    {NestedCallSource(x, y) : x \in NestedCallArguments, y \in NestedCallArguments}

Sources ==
    ChainSources \cup UnarySources \cup AssignSources \cup FunctionSources
    \cup NestedCallSources \cup BadSources \cup OtherSources

Num(n) == NumberNode(IntToF64(n))
Assign(name, n) == VariableExpression(name, Num(n))
\* The reserved Boolean literal node, which eval_node does not evaluate.
BooleanNode(b) == [type |-> "Boolean", value |-> b]

IfConditions ==
    { Num(0), Num(1),
      BinaryExpression(Num(1), "DoubleEquals", Num(1)),
      BinaryExpression(Num(1), "LessThan", Num(0)),
      BinaryExpression(BinaryExpression(Num(2), "GreaterThanOrEqualTo", Num(1)), "DoubleEquals",
                       BinaryExpression(Num(1), "LessThanOrEqualTo", Num(2))),
      BinaryExpression(Num(2), "GreaterThan", Num(1)),
      VariableNode("x"),
      Assign("z", 1),
      BooleanNode(TRUE) }

Consequences ==
    { <<>>,
      <<Assign("x", 2), Assign("y", 3)>>,
      <<FunctionExpression("g", <<>>, <<ReturnExpression(Num(4))>>),
        VariableExpression("x", FunctionCall("g", <<>>))>>,
      <<ReturnExpression(Num(5)), Assign("x", 2)>>,
      <<IfStatement(Num(1), <<Assign("x", 2), ReturnExpression(VariableNode("x"))>>),
        VariableExpression("y", VariableNode("x"))>> }

\* What follows the if statement at top level.
Tails == { <<VariableNode("x")>>, <<VariableNode("x"), VariableNode("y")>>,
           <<VariableNode("x"), FunctionCall("g", <<>>)>> }

\* x = 1; if cond { consequence }; tail
TopLevelIfPrograms ==
    {Program(<<Assign("x", 1), IfStatement(cond, cons)>> \o tail) :
        cond \in IfConditions, cons \in Consequences, tail \in Tails}

\* func f() { x = 1; if cond { consequence }; return x }; f(); x
FunctionIfPrograms ==
    {Program(<<FunctionExpression("f", <<>>,
                 <<Assign("x", 1), IfStatement(cond, cons), ReturnExpression(VariableNode("x"))>>),
               FunctionCall("f", <<>>)>>) :
        cond \in IfConditions, cons \in Consequences}

OtherPrograms ==
    { \* a call of a name bound to a number
      Program(<<Assign("x", 5), FunctionCall("x", <<>>), VariableNode("x")>>),
      \* a call of a name with no binding
      Program(<<FunctionCall("g", <<>>)>>),
      \* operands the operators reject
      Program(<<BinaryExpression(Num(1), "DoubleEquals",
                                 BinaryExpression(Num(1), "DoubleEquals", Num(1)))>>),
      Program(<<BinaryExpression(BinaryExpression(Num(1), "DoubleEquals", Num(1)), "LessThan",
                                 BinaryExpression(Num(1), "DoubleEquals", Num(1)))>>),
      Program(<<BinaryExpression(BinaryExpression(Num(1), "DoubleEquals", Num(1)), "Plus", Num(1))>>),
      \* operands that produce no value
      Program(<<BinaryExpression(Assign("x", 1), "Plus", Num(1)),
                BinaryExpression(Num(1), "Plus", Assign("y", 1)),
                UnaryExpression(Assign("z", 1)),
                UnaryExpression(BinaryExpression(Num(1), "DoubleEquals", Num(1))),
                VariableExpression("u", Assign("a", 1))>>),
      \* eval of a node that is no Program
      Num(1) }

Programs == TopLevelIfPrograms \cup FunctionIfPrograms \cup OtherPrograms

InitSource ==
    /\ src \in Sources
    /\ program = NoNode
    /\ stage = "parse"

InitProgram ==
    /\ src = <<>>
    /\ program \in Programs
    /\ stage = "ready"

Init ==
    /\ InitSource \/ InitProgram
    /\ ctrl = CIdle
    /\ kont = <<>>
    /\ scopes = new_symbol_table
    /\ result = <<>>
    /\ err = ""

Next ==
    \/ Parse
    \/ Eval
    \/ EvalLoop
    \/ EvalNumber
    \/ EvalVariable
    \/ EvalFunctionExpression
    \/ EvalOther
    \/ EvalVariableExpression
    \/ VariableExpressionDone
    \/ EvalUnaryExpression
    \/ UnaryExpressionDone
    \/ EvalBinaryExpression
    \/ BinaryLeftDone
    \/ BinaryRightDone
    \/ EvalIfStatement
    \/ IfConditionDone
    \/ StatementListLoop
    \/ EvalFunctionCall
    \/ FunctionBodyLoop
    \/ FunctionReturn

Spec == Init /\ [][Next]_vars

(***************************************************************************)
(* Properties.                                                             *)
(***************************************************************************)
\* The frames of kont that own a scope of the stack.
ScopeFrames == {i \in 1..Len(kont) : kont[i].k \in {"ifbody", "funcbody", "funcret"}}

\* func f() { x = 1; if 1 { if 1 { x = 2; return x }; y = x }; return x }; f()
NestedIfInFunction ==
    Program(<<FunctionExpression("f", <<>>,
                <<Assign("x", 1),
                  IfStatement(Num(1),
                      <<IfStatement(Num(1), <<Assign("x", 2), ReturnExpression(VariableNode("x"))>>),
                        VariableExpression("y", VariableNode("x"))>>),
                  ReturnExpression(VariableNode("x"))>>),
              FunctionCall("f", <<>>)>>)

\* C1: the scope stack always holds the global scope; it holds exactly one
\* more scope per if consequence or function body being evaluated, so each
\* scope pushed for a block is popped exactly once when the block finishes
\* (also through a top-level return) and the depth after a completed if
\* statement or call is the depth before it; the depth is 1 when eval returns.
C1_ScopesBalanced ==
    /\ Len(scopes) >= 1
    /\ scopes[1].label = "global"
    /\ Len(scopes) = 1 + Cardinality(ScopeFrames)
    /\ stage = "done" => Len(scopes) = 1 /\ kont = <<>>

\* A call whose body holds nested if consequences and returns has completed.
C1_Witness ==
    /\ stage = "done"
    /\ program = NestedIfInFunction
    /\ result = <<None, SymNumber(IntToF64(1))>>
    /\ Len(scopes) = 1

\* The sources `a op1 b op2 c`.
IsChain == Len(src) = 5 /\ src[2] \in BinaryOperators /\ src[4] \in BinaryOperators
Parsed == stage \notin {"parse", "panic"} \/ (stage = "panic" /\ err # "syntax")

OperandNode(tok) == IF tok.t = "Integer" THEN Num(tok.v) ELSE VariableNode(tok.s)
OperandValue(tok) == SymNumber(IntToF64(tok.v))
LeftGrouped(a, op1, b, op2, c) ==
    BinaryExpression(BinaryExpression(OperandNode(a), op1.t, OperandNode(b)), op2.t, OperandNode(c))
RightGrouped(a, op1, b, op2, c) ==
    BinaryExpression(OperandNode(a), op1.t, BinaryExpression(OperandNode(b), op2.t, OperandNode(c)))
LeftValue(a, op1, b, op2, c) ==
    eval_math_expression(
        eval_math_expression(OperandValue(a), op1.t, OperandValue(b)), op2.t, OperandValue(c))
RightValue(a, op1, b, op2, c) ==
    eval_math_expression(
        OperandValue(a), op1.t, eval_math_expression(OperandValue(b), op2.t, OperandValue(c)))

\* C2: for op1, op2 among + - * / of equal precedence (op1 = op2 included),
\* `a op1 b op2 c` is parsed (a op1 b) op2 c, and eval yields the value of
\* (a op1 b) op2 c.
C2_LeftAssociative ==
    (/\ IsChain
     /\ src[2] # Carat
     /\ get_precedence(src[2]) = get_precedence(src[4]))
    => /\ stage # "parse" => Parsed
       /\ Parsed => program = Program(<<LeftGrouped(src[1], src[2], src[3], src[4], src[5])>>)
       /\ stage = "done" => result = <<LeftValue(src[1], src[2], src[3], src[4], src[5])>>

\* 12/2/3 has been evaluated to 2 (and not to 12/(2/3) = 18).
C2_Witness ==
    /\ stage = "done"
    /\ src = <<TInt(12), ForwardSlash, TInt(2), ForwardSlash, TInt(3)>>
    /\ result = <<SymNumber(IntToF64(2))>>

\* C3: `a ^ b ^ c` is parsed a ^ (b ^ c) and eval yields the value of
\* a ^ (b ^ c), so 2 ^ 3 ^ 2 is 512 and not 64; infix parses the right
\* operand with floor 5 - 1 for ^ and with the operator's own precedence for
\* the other operators.
C3_CaratRightAssociative ==
    /\ (IsChain /\ src[2] = Carat /\ src[4] = Carat)
       => /\ stage # "parse" => Parsed
          /\ Parsed => program = Program(<<RightGrouped(src[1], src[2], src[3], src[4], src[5])>>)
          /\ stage = "done" => result = <<RightValue(src[1], src[2], src[3], src[4], src[5])>>
    /\ (stage = "done" /\ src = <<TInt(2), Carat, TInt(3), Carat, TInt(2)>>)
       => result = <<SymNumber(IntToF64(512))>> /\ result # <<SymNumber(IntToF64(64))>>
    /\ infix_floor(Carat) = 5 - 1
    /\ \A op \in BinaryOperators \ {Carat} : infix_floor(op) = get_precedence(op)

\* 2 ^ 3 ^ 2 has been evaluated to 512.
C3_Witness ==
    /\ stage = "done"
    /\ src = <<TInt(2), Carat, TInt(3), Carat, TInt(2)>>
    /\ result = <<SymNumber(IntToF64(512))>>

\* The sources `-x op y` and `(-x) ^ y`.
IsMinusChain == Len(src) = 4 /\ src[1] = Minus /\ src[3] \in BinaryOperators
IsParenMinus == Len(src) = 6 /\ src[1] = OpenParenthesis /\ src[2] = Minus /\ src[5] = Carat

\* C4: `-x ^ y` is parsed -(x ^ y); `-x op y` for op among * / + - is parsed
\* (-x) op y; `(-x) ^ y` is parsed (-x) ^ y; eval yields the values of these
\* groupings, so -2 ^ 2 is -4, (-2) ^ 2 is 4 and -2 * 3 is -6.
C4_UnaryMinusBinding ==
    /\ (IsMinusChain /\ src[3] = Carat)
       => /\ stage # "parse" => Parsed
          /\ Parsed => program = Program(<<UnaryExpression(
                           BinaryExpression(OperandNode(src[2]), "Carat", OperandNode(src[4])))>>)
          /\ stage = "done" => result = <<unary_result(
                 eval_math_expression(OperandValue(src[2]), "Carat", OperandValue(src[4])))>>
    /\ (IsMinusChain /\ src[3] # Carat)
       => /\ stage # "parse" => Parsed
          /\ Parsed => program = Program(<<BinaryExpression(
                           UnaryExpression(OperandNode(src[2])), src[3].t, OperandNode(src[4]))>>)
          /\ stage = "done" => result = <<eval_math_expression(
                 unary_result(OperandValue(src[2])), src[3].t, OperandValue(src[4]))>>
    /\ IsParenMinus
       => /\ stage # "parse" => Parsed
          /\ Parsed => program = Program(<<BinaryExpression(
                           UnaryExpression(OperandNode(src[3])), "Carat", OperandNode(src[6]))>>)
          /\ stage = "done" => result = <<eval_math_expression(
                 unary_result(OperandValue(src[3])), "Carat", OperandValue(src[6]))>>
    /\ (stage = "done" /\ src = <<Minus, TInt(2), Carat, TInt(2)>>)
       => result = <<SymNumber(fneg(IntToF64(4)))>>
    /\ (stage = "done" /\ src = <<OpenParenthesis, Minus, TInt(2), CloseParenthesis, Carat, TInt(2)>>)
       => result = <<SymNumber(IntToF64(4))>>
    /\ (stage = "done" /\ src = <<Minus, TInt(2), Asterisk, TInt(3)>>)
       => result = <<SymNumber(fneg(IntToF64(6)))>>

\* -2 ^ 2 has been evaluated to -4.
C4_Witness ==
    /\ stage = "done"
    /\ src = <<Minus, TInt(2), Carat, TInt(2)>>
    /\ result = <<SymNumber(fneg(IntToF64(4)))>>

\* The runs of the sources a = 5; b = 6; func f(params) { body }; f(args).
IsFunctionRun ==
    /\ src # <<>>
    /\ program.type = "Program"
    /\ Len(program.body) = 4
    /\ program.body[3].type = "FunctionExpression"
    /\ program.body[4].type = "FunctionCall"
TheFunction == program.body[3]
TheCall == program.body[4]
FewerArguments == Len(TheCall.args) < Len(TheFunction.args)
InCall == \E i \in 1..Len(kont) : kont[i].k \in {"funcbody", "funcret"}

\* The caller's value of a call argument of these sources.
ArgValue(arg) ==
    IF arg.kind # "Variable" THEN arg
    ELSE CASE arg.name = "a" -> SymNumber(IntToF64(5))
           [] arg.name = "b" -> SymNumber(IntToF64(6))
           [] OTHER -> Unbound
DeclaredArgumentsBound ==
    \A i \in 1..Len(TheFunction.args) : ArgValue(TheCall.args[i]) # Unbound
\* The global scope as the three statements before the call leave it.
GlobalBeforeCall ==
    [label |-> "global",
     vars |-> [n \in Names |-> CASE n = "a" -> SymNumber(IntToF64(5))
                                 [] n = "b" -> SymNumber(IntToF64(6))
                                 [] n = "f" -> SymFunction(TheFunction)
                                 [] OTHER -> Unbound]]
\* The scope of the call with exactly the declared parameters bound.
ParametersBound ==
    [label |-> "f",
     vars |-> [n \in Names |->
                 IF \E i \in 1..Len(TheFunction.args) : TheFunction.args[i] = n
                 THEN ArgValue(TheCall.args[
                          CHOOSE i \in 1..Len(TheFunction.args) : TheFunction.args[i] = n])
                 ELSE Unbound]]
BodyEntered ==
    /\ Running /\ Len(kont) = 2 /\ Top.k = "funcbody" /\ Top.i = 0 /\ ctrl = CNext

\* C5: a call with fewer arguments than declared parameters panics with the
\* arity error, with no scope pushed and no parameter bound (the call is
\* never entered and never returns); a call with at least as many arguments
\* is entered with exactly the declared parameters bound to the caller's
\* values of the first arguments in order, and the extra arguments are not
\* looked up (an unbound extra argument does not fail the call).
C5_Arity ==
    IsFunctionRun =>
       /\ FewerArguments =>
             /\ ~InCall
             /\ Len(result) < 4
             /\ stage # "done"
             /\ stage = "panic" => err = "arity" /\ scopes = <<GlobalBeforeCall>>
       /\ (~FewerArguments /\ BodyEntered) => scopes = <<GlobalBeforeCall, ParametersBound>>
       /\ (~FewerArguments /\ DeclaredArgumentsBound) => stage # "panic"

\* A call with an extra argument that has no binding has entered its body.
C5_Witness ==
    /\ IsFunctionRun
    /\ BodyEntered
    /\ Len(TheFunction.args) = 1
    /\ TheCall.args = <<SymVariable("b"), SymVariable("u")>>
    /\ scopes[2].vars["a"] = SymNumber(IntToF64(6))

\* The first return line of a body at or after line i, 0 when there is none.
RECURSIVE FirstReturnFrom(_, _)
FirstReturnFrom(body, i) ==
    IF i > Len(body) THEN 0
    ELSE IF body[i].type = "ReturnExpression" THEN i
    ELSE FirstReturnFrom(body, i + 1)
FirstReturn(body) == FirstReturnFrom(body, 1)

\* The value of `a` inside the call of these sources.
ValueOfAInCall ==
    IF Len(TheFunction.args) >= 1 THEN ArgValue(TheCall.args[1]) ELSE SymNumber(IntToF64(5))
\* The value the call of these sources yields: that of the first return
\* line's expression (a literal, or y + 1 after y = a), None without one.
ExpectedCallValue ==
    IF FirstReturn(TheFunction.body) = 0 THEN None
    ELSE IF TheFunction.body[FirstReturn(TheFunction.body)].expr.type = "Number"
    THEN SymNumber(TheFunction.body[FirstReturn(TheFunction.body)].expr.value)
    ELSE eval_math_expression(ValueOfAInCall, "Plus", SymNumber(IntToF64(1)))

IsFunctionIfProgram ==
    /\ src = <<>>
    /\ program.type = "Program"
    /\ Len(program.body) = 2
    /\ program.body[1].type = "FunctionExpression"

\* While a function body is evaluated, only lines up to the first top-level
\* return have been reached.
C6_Frames ==
    /\ \A i \in 1..Len(kont) :
          kont[i].k \in {"funcbody", "funcret"} =>
             /\ kont[i].i \in 0..Len(kont[i].body)
             /\ \A j \in 1..(kont[i].i - 1) : kont[i].body[j].type # "ReturnExpression"
             /\ kont[i].k = "funcret" => kont[i].i = FirstReturn(kont[i].body)
             /\ (kont[i].k = "funcbody" /\ kont[i].i > 0) =>
                   kont[i].body[kont[i].i].type # "ReturnExpression"
    /\ (IsFunctionRun /\ Len(result) >= 4) => result[4] = ExpectedCallValue
    /\ (IsFunctionRun /\ ~FewerArguments /\ DeclaredArgumentsBound /\ stage # "eval")
          => stage \in {"parse", "ready", "done"}
    /\ (IsFunctionIfProgram /\ Len(result) >= 2) => result[2] = SymNumber(IntToF64(1))

\* The steps of a call: the current line moves on by one line at a time; the
\* call ends either at a return line, with the value of its expression, or
\* after the last line, with None.
C6_Steps ==
    /\ \A i \in 1..Min(Len(kont), Len(kont')) :
          (kont[i].k = "funcbody" /\ kont'[i].k \in {"funcbody", "funcret"})
             => /\ kont'[i].body = kont[i].body
                /\ kont'[i].i \in {kont[i].i, kont[i].i + 1}
    /\ (Running /\ Len(kont) > 0 /\ Top.k = "funcbody" /\ Len(kont') < Len(kont))
          => Top.i = Len(Top.body) /\ ctrl' = CRet(None)
    /\ (Running /\ Len(kont) > 0 /\ Top.k = "funcret" /\ Len(kont') < Len(kont))
          => ctrl.m = "ret" /\ ctrl' = CRet(ctrl.val)

\* C6: a call evaluates the lines of its body in order, one after the
\* other; it never goes past a return line: the first top-level return line
\* has its expression evaluated and its value is the call's value; without a
\* top-level return line the call runs to the end of the body and yields None.
C6_FirstReturn == []C6_Frames /\ [][C6_Steps]_vars

\* The call of f() { return 7; u } has yielded 7.
C6_Witness ==
    /\ stage = "done"
    /\ IsFunctionRun
    /\ Len(TheFunction.body) = 2
    /\ TheFunction.body[1] = ReturnExpression(Num(7))
    /\ TheFunction.body[2] = VariableNode("u")
    /\ result[4] = SymNumber(IntToF64(7))

\* A nonzero Number or a true Boolean.
Truthy(val) ==
    \/ val.kind = "Number" /\ ~IsZero(val.num)
    \/ val.kind = "Boolean" /\ val.b

IsTopLevelIfProgram ==
    /\ src = <<>>
    /\ program.type = "Program"
    /\ Len(program.body) >= 3
    /\ program.body[2].type = "IfStatement"

\* While a consequence is evaluated, the scopes below the if scope are those
\* from before the if statement.
C7_Inside ==
    /\ \A i \in 1..Len(kont) :
          kont[i].k = "ifbody" =>
             /\ Len(scopes) > Len(kont[i].before)
             /\ SubSeq(scopes, 1, Len(kont[i].before)) = kont[i].before
    /\ (Running /\ Len(kont) > 0 /\ ctrl = CNext /\ Top.k = "ifbody")
          => scopes = Append(Top.before, NewScope("if"))
    /\ (IsTopLevelIfProgram /\ Len(result) >= 3) => result[3] = SymNumber(IntToF64(1))
    /\ (IsTopLevelIfProgram /\ Len(program.body) = 4) => stage # "done"

\* Entering a consequence pushes one fresh scope.
C7_Enter ==
    (Returning("ifcond") /\ Truthy(ctrl.val))
    => /\ Len(kont') = Len(kont) /\ kont'[Len(kont)].k = "ifbody"
       /\ kont'[Len(kont)].list = Top.is.consequence
       /\ scopes' = Append(scopes, NewScope("if"))

\* Leaving a consequence restores the scope stack from before it.
C7_Exit ==
    (Looping("ifbody") /\ Top.i + 1 > Len(Top.list))
    => /\ stage' = "eval"
       /\ kont' = Below
       /\ scopes' = Top.before

\* C7: an if statement whose condition is a nonzero Number or a true
\* Boolean runs its consequence in a fresh scope pushed on the stack; while
\* the consequence runs and after the if statement has finished, every
\* enclosing scope holds exactly the bindings it held when the consequence
\* was entered: a name assigned or a function defined inside is not visible
\* afterwards, an outer binding of the same name keeps its value.
C7_IfScopeDiscarded == []C7_Inside /\ [][C7_Enter /\ C7_Exit]_vars

\* x = 1; if 1 == 1 { x = 2; y = 3 }; x has been evaluated, x yielding 1.
C7_Witness ==
    /\ stage = "done"
    /\ program = Program(<<Assign("x", 1),
                           IfStatement(BinaryExpression(Num(1), "DoubleEquals", Num(1)),
                                       <<Assign("x", 2), Assign("y", 3)>>),
                           VariableNode("x")>>)
    /\ result = <<None, None, SymNumber(IntToF64(1))>>

\* C8 (as claimed): a call of a name bound to a value that is no function
\* panics; it does not return.
C8_NotCallablePanics ==
    [][(/\ Evaluating("FunctionCall")
        /\ get(scopes, ctrl.node.name) # Unbound
        /\ get(scopes, ctrl.node.name).kind # "Function")
       => stage' = "panic"]_vars

\* C9: eval pushes one entry per top-level statement, in statement order:
\* while it runs, result holds the entries of the statements before the
\* current one; when it returns, result has one entry per statement, empty
\* for an assignment and for a function definition, the literal's value for
\* a number; x = a op1 b followed by x op2 c yields [empty, (a op1 b) op2 c],
\* so x = 2 * 3 followed by x + 3 yields [empty, 9].
C9_OneEntryPerStatement ==
    /\ (Running /\ Len(kont) > 0)
          => /\ kont[1].k = "program"
             /\ kont[1].body = program.body
             /\ Len(result) = IF kont[1].i = 0 THEN 0 ELSE kont[1].i - 1
    /\ (stage = "done" /\ program.type = "Program")
          => /\ Len(result) = Len(program.body)
             /\ \A i \in 1..Len(program.body) :
                   /\ program.body[i].type \in {"VariableExpression", "FunctionExpression"}
                         => result[i] = None
                   /\ program.body[i].type = "Number"
                         => result[i] = SymNumber(program.body[i].value)
    /\ (stage = "done" /\ Len(src) = 9 /\ src[2] = Equals)
          => result = <<None, eval_math_expression(
                                 eval_math_expression(OperandValue(src[3]), src[4].t,
                                                      OperandValue(src[5])),
                                 src[8].t, OperandValue(src[9]))>>
    /\ (stage = "done" /\ src = <<TId("x"), Equals, TInt(2), Asterisk, TInt(3), Newline,
                                  TId("x"), Plus, TInt(3)>>)
          => result = <<None, SymNumber(IntToF64(9))>>

\* x = 2 * 3 followed by x + 3 has been evaluated to [empty, 9].
C9_Witness ==
    /\ stage = "done"
    /\ src = <<TId("x"), Equals, TInt(2), Asterisk, TInt(3), Newline, TId("x"), Plus, TInt(3)>>
    /\ result = <<None, SymNumber(IntToF64(9))>>

\* C10 (as claimed): inside a function call, the statement list of an if
\* consequence is never evaluated past a return, and the call goes on after
\* the if statement without yielding the nested return's value.
C10_NestedReturnEndsConsequence ==
    /\ \A i \in 1..Len(kont) :
          (kont[i].k = "ifbody" /\ InCall) =>
             \A j \in 1..(kont[i].i - 1) : kont[i].list[j].type # "ReturnExpression"
    /\ (IsFunctionIfProgram /\ Len(result) >= 2) => result[2] = SymNumber(IntToF64(1))


\* The value push_function binds for an argument of a call made with the
\* scope stack sc: the caller's binding of a variable, a literal as it is.
CallerValue(sc, arg) ==
    IF arg.kind = "Variable" THEN get(sc, arg.name) ELSE arg

\* A step that enters a function body.
CallEntered ==
    /\ Evaluating("FunctionCall")
    /\ stage' = "eval"
    /\ Len(kont') = Len(kont) + 1
    /\ kont'[Len(kont')].k = "funcbody"

\* On entering a body, the callee's scope sits on the caller's unchanged
\* stack and binds each declared parameter to the caller's value of its
\* argument, and nothing else.
C11_Bind ==
    CallEntered =>
       LET func_call == ctrl.node
           func_expr == get(scopes, func_call.name).fe
           callee == scopes'[Len(scopes')]
       IN /\ Len(scopes') = Len(scopes) + 1
          /\ SubSeq(scopes', 1, Len(scopes)) = scopes
          /\ \A i \in 1..Len(func_expr.args) :
                callee.vars[func_expr.args[i]] = CallerValue(scopes, func_call.args[i])
          /\ \A n \in Names :
                (\A i \in 1..Len(func_expr.args) : func_expr.args[i] # n)
                   => callee.vars[n] = Unbound

\* The runs of a = 5; b = 6; func g(a, b) {...}; func f(a, b) {...}; f(1, 2).
IsNestedCallRun ==
    /\ src \in NestedCallSources
    /\ program.type = "Program"

TheNestedCall == program.body[4].body[1].expr

\* The value of an argument of g's call in f's scope, f called as f(1, 2).
NestedArgValue(arg) ==
    IF arg.kind # "Variable" THEN arg
    ELSE CASE arg.name = "a" -> SymNumber(IntToF64(1))
           [] arg.name = "b" -> SymNumber(IntToF64(2))

\* The call f(b, a) of a function f(a, b), with a = 5 and b = 6 in the caller.
IsSwappedCall ==
    /\ IsFunctionRun
    /\ TheFunction.args = <<"a", "b">>
    /\ Len(TheCall.args) >= 2
    /\ TheCall.args[1] = SymVariable("b")
    /\ TheCall.args[2] = SymVariable("a")

\* The values the calls of the generated sources bind and yield.
C11_Values ==
    /\ (IsSwappedCall /\ BodyEntered)
          => /\ scopes[2].vars["a"] = SymNumber(IntToF64(6))
             /\ scopes[2].vars["b"] = SymNumber(IntToF64(5))
    /\ (IsFunctionRun /\ BodyEntered)
          => \A i \in 1..Len(TheFunction.args) :
                TheCall.args[i].kind = "Number"
                   => scopes[2].vars[TheFunction.args[i]] = TheCall.args[i]
    /\ (IsNestedCallRun /\ stage = "done")
          => result[5] = SymNumber(fsub(NestedArgValue(TheNestedCall.args[1]).num,
                                        NestedArgValue(TheNestedCall.args[2]).num))

\* C11: in a function call, every argument that is a variable is looked up in
\* the caller's scope stack before the callee's scope is pushed and before
\* any parameter is bound: each parameter receives the caller's value of its
\* argument even when the argument's name is one of the callee's parameter
\* names (f(b, a) against f(a, b) binds a to the caller's b and b to the
\* caller's a), and a literal argument is bound unchanged.
C11_ArgumentsResolvedInCaller == []C11_Values /\ [][C11_Bind]_vars

\* f(b, a) has entered the body of f(a, b) with a = 6 and b = 5.
C11_Witness ==
    /\ IsSwappedCall
    /\ BodyEntered
    /\ TheCall.args = <<SymVariable("b"), SymVariable("a")>>
    /\ scopes[2].vars["a"] = SymNumber(IntToF64(6))
    /\ scopes[2].vars["b"] = SymNumber(IntToF64(5))

====
